---- MODULE Spec2Model ----
(***************************************************************************)
(* Model of the AI-RAG repository: the query pipeline (rag_utils.query_rag *)
(* with check_blocked, load_rag and log_query), the admin "Update Filter"  *)
(* handler, the JSON log stores and the ingestion pipeline                 *)
(* (rag_utils.ingest_documents).                                           *)
(*                                                                         *)
(* Strings are sequences of one-character strings, so that lower(), `in`,  *)
(* split() and strip() are computed and not assumed.                       *)
(***************************************************************************)
EXTENDS Integers, Sequences, FiniteSets, TLC

\* ------------------------------------------------------------------ bounds
MaxQueryLen == 1
MaxFilterLen == 1
MaxClock == 3
MaxPrior == 2
MaxFiles == 2
MaxPieces == 2
MaxRuns == 2

\* ----------------------------------------------------------------- strings
Letters == {"a", "A"}
FilterChars == Letters \cup {",", " "}

Str(S, n) == UNION {[1..k -> S] : k \in 0..n}

Queries == Str(Letters, MaxQueryLen)
FilterTexts == Str(FilterChars, MaxFilterLen)

\* str.lower() on one character, and on a string
LowerChar(c) == CASE c = "A" -> "a" [] c = "B" -> "b" [] OTHER -> c
Lower(s) == [i \in 1..Len(s) |-> LowerChar(s[i])]

\* Python's `t in q` on strings
IsSubstring(t, q) ==
    \E i \in 0..(Len(q) - Len(t)) : SubSeq(q, i + 1, i + Len(t)) = t

\* str.strip(): leading and trailing whitespace removed
IsSpace(c) == c = " "
RECURSIVE LStrip(_)
LStrip(s) == IF s # <<>> /\ IsSpace(Head(s)) THEN LStrip(Tail(s)) ELSE s
RECURSIVE RStrip(_)
RStrip(s) ==
    IF s # <<>> /\ IsSpace(s[Len(s)]) THEN RStrip(SubSeq(s, 1, Len(s) - 1)) ELSE s
Strip(s) == RStrip(LStrip(s))

\* str.split(","): the items between the commas, empty items kept
RECURSIVE SplitFrom(_, _)
SplitFrom(s, cur) ==
    IF s = <<>> THEN <<cur>>
    ELSE IF Head(s) = "," THEN <<cur>> \o SplitFrom(Tail(s), <<>>)
    ELSE SplitFrom(Tail(s), Append(cur, Head(s)))
Split(s) == SplitFrom(s, <<>>)

\* --------------------------------------------------------------- constants
BLOCKED_MSG == "Sorry, that query is not allowed. Please ask something else."
Answers == {"42"}
\* f"Error querying RAG: {str(e)}"
ErrText(e) ==
    CASE e = "AttributeError" -> "Error querying RAG: AttributeError"
      [] e = "UnicodeDecodeError" -> "Error querying RAG: UnicodeDecodeError"
      [] OTHER -> "Error querying RAG: BackendError"

Sessions == {1, 2}
\* The session the sequential specification drives, and the query the two
\* concurrent sessions of SpecRace send
MainSessions == {1}
RaceQueries == {<<"a">>}
AdminUser == "admin"

VARIABLES
    blocked_file,      \* blocked_terms.json: [exists, terms]
    logs_file,         \* chat_logs.json: [kind, entries]
    admin_logs_file,   \* admin_logs.json: [kind, entries]
    now,               \* datetime.now(): one tick per log entry built
    pc,                \* per session: where its query_rag call stands
    query,             \* per session: the query argument
    terms,             \* per session: blocked_terms as check_blocked read them
    response,          \* per session: the value handed to log_query
    stage,             \* per session: "none" | "blocked" | "answered" | "failed"
    logs,              \* per session: log_query's local list after append
    ret,               \* per session: the returned value, or the exception
    written,           \* per session: the entries this call wrote (history)
    calls,             \* per session: backend operations invoked (history)
    overlap,           \* history: some log_query read while another had not yet written
    log_call,          \* the last whole log_query / log_admin_activity call (history)
    folder,            \* ./documents as os.listdir returns it
    chroma_db,         \* ./chroma_db: the stored documents
    metrics_file,      \* metrics.json: [kind, entries]
    runs,              \* ingestion runs started (history)
    ingest,            \* the last ingest_documents call and what it did (history)
    dashboard          \* what the metrics page last showed

sideVars == <<log_call, folder, chroma_db, metrics_file, runs, ingest, dashboard>>

vars == <<blocked_file, logs_file, admin_logs_file, now, pc, query, terms,
          response, stage, logs, ret, written, calls, overlap, sideVars>>

\* ------------------------------------------------------------- file stores
MissingFile == [kind |-> "missing", entries |-> <<>>]
ArrayFile(es) == [kind |-> "array", entries |-> es]
LogKinds == {"missing", "empty", "garbage", "unreadable", "undecodable",
             "object", "array"}

\* load_blocked_terms: the terms, and the file as the call leaves it
load_blocked_terms(f) == IF f.exists THEN f.terms ELSE <<>>
BlockedFileAfterLoad(f) == IF f.exists THEN f ELSE [exists |-> TRUE, terms |-> <<>>]

\* save_blocked_terms
save_blocked_terms(ts) == [exists |-> TRUE, terms |-> ts]

\* The terms "Update Filter" saves for the text of the text area
UpdatedTerms(new_filter) ==
    IF Strip(new_filter) # <<>>
    THEN LET items == Split(new_filter)
         IN [i \in 1..Len(items) |-> Strip(items[i])]
    ELSE <<>>

\* blocked_terms.json as the program finds it when it starts: not yet created,
\* or as an earlier "Update Filter" saved it
PersistedBlocklists ==
    {[exists |-> FALSE, terms |-> <<>>]}
    \cup {save_blocked_terms(UpdatedTerms(t)) : t \in FilterTexts}

\* check_blocked with the term compared as typed (its lower() forgotten)
check_blocked_as_typed(q, ts) ==
    \E i \in 1..Len(ts) : IsSubstring(ts[i], Lower(q))

\* check_blocked: any(term.lower() in query.lower() for term in blocked_terms)
check_blocked(q, ts) ==
    \E i \in 1..Len(ts) : IsSubstring(Lower(ts[i]), Lower(q))

\* The read-append part with the file's earlier entries forgotten (logs = []
\* kept after the read)
LogsAfterAppend_forgets(f, e) == [exc |-> "none", logs |-> <<e>>]

\* The read-append part of log_query / log_admin_activity (lines 72-82): the
\* exception that escapes it, if any, and the local list after append.
\*   missing                      -> logs = []
\*   empty (blank content)        -> logs = []
\*   garbage (JSONDecodeError)    -> caught, logs = []
\*   unreadable (IOError on read) -> caught, logs = []
\*   undecodable (bytes that are not UTF-8): f.read() raises UnicodeDecodeError,
\*                                   which the except clause does not name
\*   object (JSON that is no array): logs.append raises AttributeError
LogsAfterAppend(f, e) ==
    [exc  |-> CASE f.kind = "undecodable" -> "UnicodeDecodeError"
                [] f.kind = "object" -> "AttributeError"
                [] OTHER -> "none",
     logs |-> IF f.kind = "array" THEN Append(f.entries, e) ELSE <<e>>]

\* The write part (lines 84-85): json.dump(logs) over the file
LogFileAfterWrite(ls) == ArrayFile(ls)

QueryEntry(ts, q, r, sid) ==
    [timestamp |-> ts, query |-> q, response |-> r, session_id |-> sid]
AdminEntry(ts, action, user, details) ==
    [timestamp |-> ts, action |-> action, username |-> user, details |-> details]

\* ------------------------------------------------------ document ingestion
\* A file of ./documents: its name, whether its loader can read it, whether its
\* documents can be split at all, and the number of chunks a splitter makes of it
\* (0 for an empty document).
FileNames == {[stem |-> "a", ext |-> ".txt"], [stem |-> "b", ext |-> ".pdf"],
              [stem |-> "c", ext |-> ".md"]}
Files == [name : FileNames, load_ok : BOOLEAN, split_ok : BOOLEAN, pieces : 0..MaxPieces]
Folders ==
    {fs \in UNION {[1..k -> Files] : k \in 0..MaxFiles} :
        \A i, j \in 1..Len(fs) : i # j => fs[i].name # fs[j].name}

\* file.endswith(suffix)
endswith(file, suffix) == file.name.ext = suffix

\* A chunk as db.add_documents stores it: page content of one piece of one file,
\* the loader's metadata; ingest_documents sets no parent identifier.
NoId == "none"
Chunk(file, k) == [source |-> file.name, index |-> k, tier |-> "flat", doc_id |-> NoId]
ChunksOf(file) == [k \in 1..file.pieces |-> Chunk(file, k)]

\* get_hierarchical_splitter: SemanticChunker unless its constructor raises
get_hierarchical_splitter(ctor_ok) == IF ctor_ok THEN "semantic" ELSE "recursive"

\* splitter.split_documents(docs) raises: the documents cannot be split, or the
\* semantic splitter's embedding calls fail. The character splitter needs no
\* embedding.
SplitFails(file, splitter, embed_split_ok) ==
    \/ ~file.split_ok
    \/ splitter = "semantic" /\ ~embed_split_ok

\* The loop of ingest_documents, lines 174-193. loader.load() is outside the try:
\* its exception leaves the loop and the function.
RECURSIVE IngestLoop(_, _, _, _)
IngestLoop(files, splitter, embed_split_ok, acc) ==
    IF files = <<>> THEN acc
    ELSE LET file == Head(files) IN
         IF endswith(file, ".txt") \/ endswith(file, ".pdf")
            \/ endswith(file, ".docx") \/ endswith(file, ".pptx")
         THEN IF ~file.load_ok
              THEN [acc EXCEPT !.raised = TRUE]
              ELSE IF SplitFails(file, splitter, embed_split_ok)
              THEN IngestLoop(Tail(files), splitter, embed_split_ok,
                              [acc EXCEPT !.skipped = Append(@, file.name)])
              ELSE IngestLoop(Tail(files), splitter, embed_split_ok,
                              [acc EXCEPT !.documents = @ \o ChunksOf(file),
                                          !.processed = Append(@, file.name)])
         ELSE IngestLoop(Tail(files), splitter, embed_split_ok, acc)

NoResult == [kind |-> "none", chunks |-> 0, files |-> 0]
\* f"Ingested {len(documents)} chunks from {len(os.listdir(folder_path))} files!"
Summary(documents, listing) ==
    [kind |-> "ingested", chunks |-> Len(documents), files |-> Len(listing)]
\* "No valid documents found."
NoValidDocuments == [kind |-> "no valid documents", chunks |-> 0, files |-> 0]

\* ingest_documents, lines 168-199: what the call did, and the index after it
ingest_documents(files, db, ctor_ok, embed_split_ok, embed_upsert_ok) ==
    LET splitter == get_hierarchical_splitter(ctor_ok)
        loop == IngestLoop(files, splitter, embed_split_ok,
                           [raised |-> FALSE, documents |-> <<>>,
                            processed |-> <<>>, skipped |-> <<>>])
        upsert == ~loop.raised /\ loop.documents # <<>>
        raised == loop.raised \/ (upsert /\ ~embed_upsert_ok)
    IN [outcome   |-> IF raised THEN "raised" ELSE "returned",
        result    |-> IF raised THEN NoResult
                      ELSE IF upsert THEN Summary(loop.documents, files)
                      ELSE NoValidDocuments,
        splitter  |-> splitter,
        documents |-> loop.documents,
        processed |-> loop.processed,
        skipped   |-> loop.skipped,
        upserts   |-> IF upsert THEN 1 ELSE 0,
        db        |-> IF upsert /\ embed_upsert_ok THEN db \o loop.documents ELSE db]

NoIngest ==
    [outcome |-> "none", result |-> NoResult, splitter |-> "none", documents |-> <<>>,
     processed |-> <<>>, skipped |-> <<>>, upserts |-> 0, db |-> <<>>,
     listing |-> <<>>, embed_split_ok |-> TRUE, embed_upsert_ok |-> TRUE]

\* The parents the ParentDocumentRetriever of load_rag (lines 142-147, docstore=db)
\* resolves for a matched child: the stored parent documents whose identifier
\* the child's metadata names.
ParentsOf(child, db) ==
    {i \in 1..Len(db) : /\ child.doc_id # NoId
                        /\ db[i].tier = "parent"
                        /\ db[i].doc_id = child.doc_id}

\* ------------------------------------------------------------ initial states
NoCall == [store |-> "none", exc |-> "none", entry |-> [timestamp |-> 0],
           prior |-> MissingFile]

InitSide ==
    /\ log_call = NoCall
    /\ folder = <<>>
    /\ chroma_db = <<>>
    /\ metrics_file = MissingFile
    /\ runs = 0
    /\ ingest = NoIngest
    /\ dashboard = "not opened"

\* ---------------------------------------------------------- query pipeline
NoTerms == <<>>
Pending == Cardinality({s \in Sessions : pc[s] \in {"load_rag", "invoke", "log_read"}})

InitQuery ==
    /\ blocked_file \in PersistedBlocklists
    /\ logs_file = MissingFile
    /\ admin_logs_file = MissingFile
    /\ now = 0
    /\ pc = [s \in Sessions |-> "idle"]
    /\ query = [s \in Sessions |-> <<>>]
    /\ terms = [s \in Sessions |-> NoTerms]
    /\ response = [s \in Sessions |-> ""]
    /\ stage = [s \in Sessions |-> "none"]
    /\ logs = [s \in Sessions |-> <<>>]
    /\ ret = [s \in Sessions |-> ""]
    /\ written = [s \in Sessions |-> <<>>]
    /\ calls = [s \in Sessions |-> {}]
    /\ overlap = FALSE

Init == InitQuery /\ InitSide

\* query_rag, lines 151-153 and 156: check_blocked reads the blocklist (creating
\* the file when it is missing) and the call branches.
QueryRag(s, q) ==
    /\ pc[s] = "idle"
    /\ now + Pending < MaxClock
    /\ query' = [query EXCEPT ![s] = q]
    /\ terms' = [terms EXCEPT ![s] = load_blocked_terms(blocked_file)]
    /\ blocked_file' = BlockedFileAfterLoad(blocked_file)
    /\ IF check_blocked(q, load_blocked_terms(blocked_file))
       THEN /\ response' = [response EXCEPT ![s] = BLOCKED_MSG]
            /\ stage' = [stage EXCEPT ![s] = "blocked"]
            /\ pc' = [pc EXCEPT ![s] = "log_read"]
       ELSE /\ pc' = [pc EXCEPT ![s] = "load_rag"]
            /\ UNCHANGED <<response, stage>>
    /\ UNCHANGED <<logs_file, admin_logs_file, now, logs, ret, written, calls, overlap>>
    /\ UNCHANGED sideVars

\* load_rag (line 156, outside the try): builds the embeddings, the Chroma index,
\* the LLM and the ParentDocumentRetriever; a failure there leaves query_rag as
\* an exception.
LoadRag(s) ==
    /\ pc[s] = "load_rag"
    /\ calls' = [calls EXCEPT ![s] = @ \cup {"load_rag"}]
    /\ \E ok \in BOOLEAN :
         IF ok
         THEN /\ pc' = [pc EXCEPT ![s] = "invoke"]
              /\ UNCHANGED ret
         ELSE /\ pc' = [pc EXCEPT ![s] = "raised"]
              /\ ret' = [ret EXCEPT ![s] = "BackendError"]
    /\ UNCHANGED <<blocked_file, logs_file, admin_logs_file, now, query, terms,
                   response, stage, logs, written, overlap>>
    /\ UNCHANGED sideVars

\* qa.invoke (line 158, inside the try): the answer, or the exception turned into
\* the error text (lines 161-162).
Invoke(s) ==
    /\ pc[s] = "invoke"
    /\ calls' = [calls EXCEPT ![s] = @ \cup {"invoke"}]
    /\ \/ \E a \in Answers :
            /\ response' = [response EXCEPT ![s] = a]
            /\ stage' = [stage EXCEPT ![s] = "answered"]
       \/ /\ response' = [response EXCEPT ![s] = ErrText("BackendError")]
          /\ stage' = [stage EXCEPT ![s] = "failed"]
    /\ pc' = [pc EXCEPT ![s] = "log_read"]
    /\ UNCHANGED <<blocked_file, logs_file, admin_logs_file, now, query, terms,
                   logs, ret, written, overlap>>
    /\ UNCHANGED sideVars

\* log_query, lines 64-82: the entry is built, the file read, the entry appended
\* to the local list. An exception in the call at line 159 is caught by query_rag's
\* except clause, which calls log_query again with the error text; one in the calls
\* at lines 154 and 163 leaves query_rag.
LogRead(s) ==
    /\ pc[s] = "log_read"
    /\ now' = now + 1
    /\ LET e == QueryEntry(now + 1, query[s], response[s], s)
           r == LogsAfterAppend(logs_file, e)
       IN IF r.exc = "none"
          THEN /\ logs' = [logs EXCEPT ![s] = r.logs]
               /\ pc' = [pc EXCEPT ![s] = "log_write"]
               /\ UNCHANGED <<response, stage, ret>>
          ELSE IF stage[s] = "answered"
          THEN /\ response' = [response EXCEPT ![s] = ErrText(r.exc)]
               /\ stage' = [stage EXCEPT ![s] = "failed"]
               /\ UNCHANGED <<logs, pc, ret>>
          ELSE /\ pc' = [pc EXCEPT ![s] = "raised"]
               /\ ret' = [ret EXCEPT ![s] = r.exc]
               /\ UNCHANGED <<logs, response, stage>>
    /\ overlap' = (overlap \/ \E o \in Sessions \ {s} : pc[o] = "log_write")
    /\ UNCHANGED <<blocked_file, logs_file, admin_logs_file, query, terms,
                   written, calls>>
    /\ UNCHANGED sideVars

\* log_query, lines 84-85, and query_rag's return of the logged value
LogWrite(s) ==
    /\ pc[s] = "log_write"
    /\ logs_file' = LogFileAfterWrite(logs[s])
    /\ written' = [written EXCEPT ![s] = Append(@, logs[s][Len(logs[s])])]
    /\ ret' = [ret EXCEPT ![s] = response[s]]
    /\ pc' = [pc EXCEPT ![s] = "returned"]
    /\ UNCHANGED <<blocked_file, admin_logs_file, now, query, terms, response,
                   stage, logs, calls, overlap>>
    /\ UNCHANGED sideVars

\* The caller (app.py line 60) has the result; the session is ready for the next
\* prompt.
Finish(s) ==
    /\ pc[s] \in {"returned", "raised"}
    /\ pc' = [pc EXCEPT ![s] = "idle"]
    /\ query' = [query EXCEPT ![s] = <<>>]
    /\ terms' = [terms EXCEPT ![s] = NoTerms]
    /\ response' = [response EXCEPT ![s] = ""]
    /\ stage' = [stage EXCEPT ![s] = "none"]
    /\ logs' = [logs EXCEPT ![s] = <<>>]
    /\ ret' = [ret EXCEPT ![s] = ""]
    /\ written' = [written EXCEPT ![s] = <<>>]
    /\ calls' = [calls EXCEPT ![s] = {}]
    /\ UNCHANGED <<blocked_file, logs_file, admin_logs_file, now, overlap>>
    /\ UNCHANGED sideVars

\* ------------------------------------------------------------ admin panel
\* log_admin_activity as one step (one admin)
AdminLogAfter(f, action, user, details) ==
    LET r == LogsAfterAppend(f, AdminEntry(now + 1, action, user, details))
    IN IF r.exc = "none" THEN LogFileAfterWrite(r.logs) ELSE f

UpdateFilter(new_filter) ==
    /\ now + Pending < MaxClock
    /\ blocked_file' = save_blocked_terms(UpdatedTerms(new_filter))
    /\ admin_logs_file' = AdminLogAfter(admin_logs_file, "update_blocked_terms", AdminUser, "")
    /\ now' = now + 1
    /\ UNCHANGED <<logs_file, pc, query, terms, response, stage, logs, ret,
                   written, calls, overlap>>
    /\ UNCHANGED sideVars

\* One chat session and the admin panel, interleaved at the file operations
Next ==
    \/ \E s \in MainSessions, q \in Queries : QueryRag(s, q)
    \/ \E s \in MainSessions : LoadRag(s)
    \/ \E s \in MainSessions : Invoke(s)
    \/ \E s \in MainSessions : LogRead(s)
    \/ \E s \in MainSessions : LogWrite(s)
    \/ \E s \in MainSessions : Finish(s)
    \/ \E t \in FilterTexts : UpdateFilter(t)

Spec == Init /\ [][Next]_vars

\* Two chat sessions (Streamlit runs each session's script in its own thread)
NextRace ==
    \/ \E s \in Sessions, q \in RaceQueries : QueryRag(s, q)
    \/ \E s \in Sessions : LoadRag(s)
    \/ \E s \in Sessions : Invoke(s)
    \/ \E s \in Sessions : LogRead(s)
    \/ \E s \in Sessions : LogWrite(s)
    \/ \E s \in Sessions : Finish(s)

SpecRace == Init /\ [][NextRace]_vars

\* ---------------------------------------------------------------- log stores
\* The states a log file may be found in, with up to MaxPrior earlier entries
OldQueryEntries == {QueryEntry(0, <<"a">>, "42", 1), QueryEntry(0, <<"A">>, BLOCKED_MSG, 2)}
OldAdminEntries == {AdminEntry(0, "update_models", AdminUser, "Generation: gemma2:9b"),
                    AdminEntry(0, "ingest_documents", AdminUser, "")}
PriorFiles(old) ==
    {[kind |-> k, entries |-> <<>>] : k \in LogKinds \ {"array"}}
    \cup {ArrayFile(es) : es \in Str(old, MaxPrior)}

InitLog ==
    /\ blocked_file = [exists |-> FALSE, terms |-> <<>>]
    /\ logs_file \in PriorFiles(OldQueryEntries)
    /\ admin_logs_file \in PriorFiles(OldAdminEntries)
    /\ now = 0
    /\ pc = [s \in Sessions |-> "idle"]
    /\ query = [s \in Sessions |-> <<>>]
    /\ terms = [s \in Sessions |-> NoTerms]
    /\ response = [s \in Sessions |-> ""]
    /\ stage = [s \in Sessions |-> "none"]
    /\ logs = [s \in Sessions |-> <<>>]
    /\ ret = [s \in Sessions |-> ""]
    /\ written = [s \in Sessions |-> <<>>]
    /\ calls = [s \in Sessions |-> {}]
    /\ overlap = FALSE
    /\ InitSide

\* log_query as one call, lines 63-85
LogQuery(q, r, sid) ==
    /\ now < MaxClock
    /\ now' = now + 1
    /\ LET e == QueryEntry(now + 1, q, r, sid)
           res == LogsAfterAppend(logs_file, e)
       IN /\ logs_file' = IF res.exc = "none" THEN LogFileAfterWrite(res.logs) ELSE logs_file
          /\ log_call' = [store |-> "query", exc |-> res.exc, entry |-> e, prior |-> logs_file]
    /\ UNCHANGED <<blocked_file, admin_logs_file, pc, query, terms, response, stage,
                   logs, ret, written, calls, overlap>>
    /\ UNCHANGED <<folder, chroma_db, metrics_file, runs, ingest, dashboard>>

\* log_admin_activity as one call, lines 88-110
LogAdminActivity(action, user, details) ==
    /\ now < MaxClock
    /\ now' = now + 1
    /\ LET e == AdminEntry(now + 1, action, user, details)
           res == LogsAfterAppend(admin_logs_file, e)
       IN /\ admin_logs_file' = AdminLogAfter(admin_logs_file, action, user, details)
          /\ log_call' = [store |-> "admin", exc |-> res.exc, entry |-> e,
                          prior |-> admin_logs_file]
    /\ UNCHANGED <<blocked_file, logs_file, pc, query, terms, response, stage,
                   logs, ret, written, calls, overlap>>
    /\ UNCHANGED <<folder, chroma_db, metrics_file, runs, ingest, dashboard>>

NextLog ==
    \/ \E q \in RaceQueries, r \in Answers \cup {BLOCKED_MSG}, sid \in Sessions :
          LogQuery(q, r, sid)
    \/ \E action \in {"update_blocked_terms", "upload_documents"} :
          LogAdminActivity(action, AdminUser, "")

SpecLog == InitLog /\ [][NextLog]_vars

\* ------------------------------------------------------- ingestion, metrics
queryVars == <<blocked_file, logs_file, pc, query, terms, response, stage, logs,
               ret, written, calls, overlap>>

InitIngest ==
    /\ InitQuery
    /\ log_call = NoCall
    /\ folder \in Folders
    /\ chroma_db = <<>>
    /\ metrics_file = MissingFile
    /\ runs = 0
    /\ ingest = NoIngest
    /\ dashboard = "not opened"

\* "Run Ingestion Process", adminui.py lines 92-97: ingest_documents(), and
\* log_admin_activity when it returned.
RunIngestion(ctor_ok, embed_split_ok, embed_upsert_ok) ==
    /\ runs < MaxRuns
    /\ runs' = runs + 1
    /\ LET r == ingest_documents(folder, chroma_db, ctor_ok, embed_split_ok, embed_upsert_ok)
       IN /\ ingest' = [outcome |-> r.outcome, result |-> r.result,
                        splitter |-> r.splitter, documents |-> r.documents,
                        processed |-> r.processed, skipped |-> r.skipped,
                        upserts |-> r.upserts, db |-> chroma_db, listing |-> folder,
                        embed_split_ok |-> embed_split_ok,
                        embed_upsert_ok |-> embed_upsert_ok]
          /\ chroma_db' = r.db
          /\ IF r.outcome = "returned"
             THEN /\ admin_logs_file' =
                        AdminLogAfter(admin_logs_file, "ingest_documents", AdminUser, "")
                  /\ now' = now + 1
             ELSE UNCHANGED <<admin_logs_file, now>>
    /\ UNCHANGED <<folder, metrics_file, dashboard, log_call>>
    /\ UNCHANGED queryVars

\* The metrics page, metricsui.py lines 41-50
ViewMetrics ==
    /\ dashboard' = IF metrics_file.kind = "missing"
                    THEN "No metrics found yet. Run document ingestion first."
                    ELSE IF metrics_file.entries = <<>> THEN "Metrics file is empty."
                    ELSE "Raw Metrics Data"
    /\ dashboard' # dashboard
    /\ UNCHANGED <<admin_logs_file, now, log_call, folder, chroma_db, metrics_file,
                   runs, ingest>>
    /\ UNCHANGED queryVars

NextIngest ==
    \/ \E ctor_ok, embed_split_ok, embed_upsert_ok \in BOOLEAN :
          RunIngestion(ctor_ok, embed_split_ok, embed_upsert_ok)
    \/ ViewMetrics

SpecIngest == InitIngest /\ [][NextIngest]_vars

\* ------------------------------------------------------- the blocked filter
\* The texts an admin may leave in the text area: one character longer than
\* FilterTexts, so that an item followed by a comma ("a,"), two commas (",,")
\* and a blank item (", ") are among them
WideFilterTexts == Str(FilterChars, MaxFilterLen + 1)

\* The blocklist not yet created: every term in it comes from "Update Filter"
InitFilter ==
    /\ InitQuery
    /\ blocked_file = [exists |-> FALSE, terms |-> <<>>]
    /\ InitSide

NextFilter ==
    \/ \E t \in WideFilterTexts : UpdateFilter(t)
    \/ \E s \in MainSessions, q \in Queries : QueryRag(s, q)
    \/ \E s \in MainSessions : LoadRag(s)
    \/ \E s \in MainSessions : Invoke(s)
    \/ \E s \in MainSessions : LogRead(s)
    \/ \E s \in MainSessions : LogWrite(s)
    \/ \E s \in MainSessions : Finish(s)

SpecFilter == InitFilter /\ [][NextFilter]_vars

\* ------------------------------------------------------------------ claims
Ended(s) == pc[s] \in {"returned", "raised"}
Entries(f) == IF f.kind = "array" THEN f.entries ELSE <<>>
Range(seq) == {seq[i] : i \in 1..Len(seq)}

\* C1: every query_rag call that has ended, whatever its outcome, has written
\* exactly one entry to the query log; the entry's query is the call's input and
\* its response is the value the call returned.
C1_ExactlyOneLogEntry ==
    \A s \in Sessions :
        Ended(s) => /\ Len(written[s]) = 1
                    /\ written[s][1].query = query[s]
                    /\ pc[s] = "returned"
                    /\ written[s][1].response = ret[s]

\* The query contains the term as a substring, letter case ignored
ContainsCI(q, t) ==
    \E i \in 0..(Len(q) - Len(t)) :
        \A k \in 1..Len(t) : LowerChar(q[i + k]) = LowerChar(t[k])
BlockedAtCall(s) == \E i \in 1..Len(terms[s]) : ContainsCI(query[s], terms[s][i])

\* C2: a call whose query contains, case-insensitively, a term of the blocklist
\* persisted when the call was made never invokes load_rag or the chain, never
\* raises, and returns exactly the canned message; a call made while the
\* persisted blocklist is empty is not blocked and goes on to load_rag.
C2_BlockedNeverReachesBackend ==
    \A s \in Sessions :
        pc[s] # "idle" =>
            /\ BlockedAtCall(s) =>
                  /\ calls[s] = {}
                  /\ pc[s] \notin {"load_rag", "invoke", "raised"}
                  /\ stage[s] = "blocked"
                  /\ response[s] = BLOCKED_MSG
                  /\ pc[s] = "returned" => ret[s] = BLOCKED_MSG
            /\ terms[s] = <<>> =>
                  /\ stage[s] # "blocked"
                  /\ pc[s] \in {"load_rag", "invoke"} \/ "load_rag" \in calls[s]

\* C2 witness: a query that was blocked and logged with the canned message is,
\* after the blocklist was replaced by the empty list, sent again by the same
\* session and has reached the chain.
C2_Witness ==
    \E s \in Sessions :
        /\ pc[s] = "invoke"
        /\ terms[s] = <<>>
        /\ blocked_file = [exists |-> TRUE, terms |-> <<>>]
        /\ query[s] = <<"a">>
        /\ \E i \in 1..Len(Entries(logs_file)) :
              /\ logs_file.entries[i].query = query[s]
              /\ logs_file.entries[i].session_id = s
              /\ logs_file.entries[i].response = BLOCKED_MSG

\* C3: no query_rag call ends by raising: every ended call has returned a string
\* in one of the states BLOCKED, ANSWERED or FAILED.
C3_NeverRaises ==
    \A s \in Sessions :
        Ended(s) => /\ pc[s] # "raised"
                    /\ stage[s] \in {"blocked", "answered", "failed"}

\* The files of a listing that ingest_documents should take chunks from: those of
\* a recognised extension that load and split
Recognised(f) == f.name.ext \in {".txt", ".pdf", ".docx", ".pptx"}
RECURSIVE AllChunks(_)
AllChunks(fs) == IF fs = <<>> THEN <<>> ELSE ChunksOf(Head(fs)) \o AllChunks(Tail(fs))
GoodFile(f) ==
    /\ Recognised(f)
    /\ f.load_ok
    /\ ~SplitFails(f, ingest.splitter, ingest.embed_split_ok)

\* C4: in a run of ingest_documents (the upsert's embedding calls working), a file
\* that fails to load or to split is skipped: the run returns, and the chunks it
\* collected are exactly those of the files that did not fail, in order.
C4_FailedFileIsSkipped ==
    (ingest.outcome # "none" /\ ingest.embed_upsert_ok) =>
        /\ ingest.outcome = "returned"
        /\ ingest.documents = AllChunks(SelectSeq(ingest.listing, GoodFile))
        /\ chroma_db = ingest.db \o ingest.documents

\* C5: whatever state the log file was found in, a log_query or
\* log_admin_activity call does not raise, and leaves the file a valid array of
\* the earlier entries (none when the file was missing, malformed or unreadable)
\* followed by the new entry.
C5_AppendNeverFails ==
    log_call.store # "none" =>
        /\ log_call.exc = "none"
        /\ (IF log_call.store = "query" THEN logs_file ELSE admin_logs_file)
              = ArrayFile(Append(Entries(log_call.prior), log_call.entry))

\* C6: when the embedding calls of the semantic splitter fail, chunking falls
\* through to the character splitter: in a run where every recognised file loads,
\* each file that can be split and is not empty still yields its chunks.
C6_EmbeddingFailureFallsThrough ==
    (/\ ingest.outcome # "none"
     /\ ~ingest.embed_split_ok
     /\ \A i \in 1..Len(ingest.listing) :
           Recognised(ingest.listing[i]) => ingest.listing[i].load_ok) =>
        \A i \in 1..Len(ingest.listing) :
            LET f == ingest.listing[i]
            IN (Recognised(f) /\ f.split_ok /\ f.pieces > 0) =>
                  /\ f.name \in Range(ingest.processed)
                  /\ Range(ChunksOf(f)) \subseteq Range(ingest.documents)

\* C7: a run that produced chunks upserts them in one batch, and its summary
\* reports the number of chunks upserted and the number of files they came from
\* (files of an unrecognised extension and skipped files not counted).
C7_SummaryCountsProcessedFiles ==
    (ingest.outcome = "returned" /\ ingest.result.kind = "ingested") =>
        /\ ingest.upserts = 1
        /\ ingest.result.chunks = Len(ingest.documents)
        /\ ingest.result.files = Len(ingest.processed)

\* C8: after n runs of ingest_documents the metrics file holds n records.
C8_OneMetricPerRun == Len(Entries(metrics_file)) = runs

\* C9: for every chunk in the index exactly one parent document is resolvable by
\* the retriever.
C9_EveryChunkHasOneParent ==
    \A i \in 1..Len(chroma_db) : Cardinality(ParentsOf(chroma_db[i], chroma_db)) = 1

\* C10: as long as no log_query call read the log while another call stood
\* between its read and its write, no entry is lost: the log holds one entry per
\* call that has written, and every returned call's entry is in it.
C10_SerializedKeepsAll ==
    ~overlap =>
        /\ Len(Entries(logs_file)) + Cardinality({s \in Sessions : pc[s] = "log_write"}) = now
        /\ \A s \in Sessions :
              pc[s] = "returned" => written[s][1] \in Range(Entries(logs_file))

\* C10 witness: two interleaved calls have both returned and the log holds only
\* one of their two entries.
C10_LostUpdate ==
    /\ overlap
    /\ \A s \in Sessions : pc[s] = "returned"
    /\ now = 2
    /\ Len(Entries(logs_file)) = 1
    /\ \E s \in Sessions : written[s][1] \notin Range(Entries(logs_file))

\* C11: after "Update Filter", whatever text was entered, the saved blocklist does
\* not block every query, and a call that was blocked holds a query that
\* contains a non-empty term of the blocklist it read.
C11_FilterNeverBlocksAll ==
    /\ blocked_file.exists => \E q \in Queries : ~check_blocked(q, blocked_file.terms)
    /\ \A s \in Sessions :
          stage[s] = "blocked" =>
              \E i \in 1..Len(terms[s]) :
                  terms[s][i] # <<>> /\ ContainsCI(query[s], terms[s][i])

====
